---- MODULE Spec2Model ----
(***************************************************************************)
(* Fivetran MCP server: the tool dispatch and response normalisation of    *)
(* the two hosts.                                                          *)
(*   worker : cloudflare/src/worker.py  (on_fetch, execute_tool, its own   *)
(*            FivetranClient built on fetch)                               *)
(*   server : src/fivetran_mcp/server.py (the @mcp.tool functions) with    *)
(*            src/fivetran_mcp/fivetran_api.py (FivetranClient on httpx)   *)
(*                                                                         *)
(* One call is handled at a time.  A call runs from its entry to the       *)
(* single await of the upstream HTTP request (or to an early return or an  *)
(* exception), and from the reply of the upstream to its response.         *)
(*                                                                         *)
(* JSON / Python values.  A scalar is a record [t, v] whose v is the text  *)
(* Python's str() gives for it, t its runtime type.  A list is             *)
(* [t |-> "list", items |-> <<...>>].  A str that the code iterates or     *)
(* splits is kept as its sequence of characters.  A dict is a function on  *)
(* its keys; dict.get is Get.                                              *)
(***************************************************************************)
EXTENDS Integers, Sequences, FiniteSets, TLC

VARIABLES
    pc,        \* "idle" | "await" (upstream request in flight) | "done"
    call,      \* the call being handled: host, request or tool with arguments
    upstream,  \* the upstream HTTP requests issued for the current call, in order
    resp,      \* the response of the current call
    environ,   \* server host: os.environ, the four credential variables
    client,    \* server host: the module global _client
    host,      \* which of the two programs this is: "worker" | "server"
    constructed,  \* history: how many FivetranClient objects _get_client has made
    refused    \* history: a tool call has raised for missing credentials

vars == <<pc, call, upstream, resp, environ, client, host, constructed, refused>>

----------------------------------------------------------------------------
(* Bounds of the model *)

\* longest "tables" argument of resync_tables
MaxTables == 2
\* longest "items" list of an upstream list reply
MaxItems == 2
\* longest "setup_tests" list of an upstream test reply
MaxTests == 3
\* the constructions of a FivetranClient are counted up to this number
MaxConstructed == 2

----------------------------------------------------------------------------
(* Python values *)

None == [t |-> "null", v |-> "None"]
StrV(s) == [t |-> "str", v |-> s]
IntV(s) == [t |-> "int", v |-> s]
True == [t |-> "bool", v |-> "True"]
False == [t |-> "bool", v |-> "False"]
ListV(s) == [t |-> "list", items |-> s]
\* a str kept as its characters
CharsV(s) == [t |-> "str", chars |-> s]
\* a dict where a value of another type may stand in its place
DictV(m) == [t |-> "dict", value |-> m]

\* bool(x) for the scalars the code tests with "if x" / "not x" / "x or y"
Truthy(x) ==
    ~ \/ x.t = "null"
      \/ (x.t = "str" /\ x.v = "")
      \/ (x.t = "bool" /\ x.v = "False")
      \/ (x.t = "int" /\ x.v = "0")

\* str(x) as an f-string interpolates it
Str(x) == x.v

EmptyMap == [k \in {} |-> None]

\* dict.get(k, default)
GetOr(d, k, default) == IF k \in DOMAIN d THEN d[k] ELSE default
\* dict.get(k)
Get(d, k) == GetOr(d, k, None)
\* d[k] = v
Put(d, k, v) == [j \in DOMAIN d \cup {k} |-> IF j = k THEN v ELSE d[j]]

\* sequences over S of length at most n
SeqUpTo(S, n) == UNION {[1..k -> S] : k \in 0..n}

\* [f(s[i]) for i]
MapSeq(s, f(_)) == [i \in 1..Len(s) |-> f(s[i])]

\* sum(1 for x in s if p(x))
CountIf(s, p(_)) == Cardinality({i \in 1..Len(s) : p(s[i])})

----------------------------------------------------------------------------
(* Exceptions and upstream requests *)

\* a raised exception; msg is what str(e) shows of it
Exc(type, msg) == [exc |-> type, msg |-> msg]

\* outcome of running a handler up to the reply it waits for: the upstream
\* requests its client calls send, or a raise
Raised(e) == [kind |-> "raise", exc |-> e]
Issue(r) == [kind |-> "request", reqs |-> <<r>>]

NoBody == [t |-> "nobody"]
NoQuery == EmptyMap

\* one HTTP request: method, path segments below the host name, query, JSON body
Req(method, path, query, body) ==
    [method |-> method, path |-> path, query |-> query, body |-> body]

----------------------------------------------------------------------------
(* worker.py: FivetranClient *)

\* _request: BASE_URL ends in /v1; "if data:" sends a body for a non-empty dict only
worker_request(method, path, query, data) ==
    Req(method, <<"v1">> \o path, query,
        IF data # NoBody /\ data # EmptyMap THEN data ELSE NoBody)

worker_list_connections(limit) ==
    worker_request("GET", <<"connections">>, [limit |-> Str(limit)], NoBody)

worker_list_connections_in_group(group_id, limit) ==
    worker_request("GET", <<"groups", Str(group_id), "connectors">>,
                   [limit |-> Str(limit)], NoBody)

worker_get_connection(connection_id) ==
    worker_request("GET", <<"connectors", Str(connection_id)>>, NoQuery, NoBody)

worker_trigger_sync(connection_id, force) ==
    worker_request("POST", <<"connectors", Str(connection_id), "sync">>, NoQuery,
                   [force |-> force])

worker_trigger_resync(connection_id) ==
    worker_request("POST", <<"connectors", Str(connection_id), "resync">>, NoQuery, NoBody)

\* table.split(".", 1) on the characters of table
Split1(s) ==
    IF \E i \in 1..Len(s) : s[i] = "."
    THEN LET i == CHOOSE j \in 1..Len(s) :
                      s[j] = "." /\ \A k \in 1..(j - 1) : s[k] # "."
         IN <<SubSeq(s, 1, i - 1), SubSeq(s, i + 1, Len(s))>>
    ELSE <<s>>

\* the loop body of resync_tables for one entry
AddTable(table_objects, table) ==
    LET parts == Split1(table) IN
    IF Len(parts) = 2
    THEN LET schema == parts[1]
             table_name == parts[2]
             entry == IF schema \in DOMAIN table_objects
                      THEN table_objects[schema]
                      ELSE [tables |-> EmptyMap]
         IN Put(table_objects, schema,
                [tables |-> Put(entry.tables, table_name, EmptyMap)])
    ELSE table_objects

RECURSIVE TableObjectsFrom(_, _)
\* the for loop of resync_tables over the entries, from table_objects
TableObjectsFrom(table_objects, entries) ==
    IF entries = <<>> THEN table_objects
    ELSE TableObjectsFrom(AddTable(table_objects, Head(entries)), Tail(entries))

TableObjects(entries) == TableObjectsFrom(EmptyMap, entries)

\* what "for table in tables" iterates: list items, or the characters of a str
IsIterable(tables) == tables.t \in {"list", "str"}
Iterate(tables) ==
    IF tables.t = "list" THEN tables.items
    ELSE [i \in 1..Len(tables.chars) |-> <<tables.chars[i]>>]

worker_resync_tables(connection_id, tables) ==
    IF ~IsIterable(tables)
    THEN Raised(Exc("TypeError", "object is not iterable"))
    ELSE Issue(worker_request("POST",
               <<"connectors", Str(connection_id), "schemas", "tables", "resync">>,
               NoQuery, [schemas |-> TableObjects(Iterate(tables))]))

worker_pause_connection(connection_id) ==
    worker_request("PATCH", <<"connectors", Str(connection_id)>>, NoQuery, [paused |-> True])

worker_resume_connection(connection_id) ==
    worker_request("PATCH", <<"connectors", Str(connection_id)>>, NoQuery, [paused |-> False])

worker_list_groups(limit) ==
    worker_request("GET", <<"groups">>, [limit |-> Str(limit)], NoBody)

worker_test_connection(connection_id) ==
    worker_request("POST", <<"connectors", Str(connection_id), "test">>, NoQuery, NoBody)

worker_get_schema(connection_id) ==
    worker_request("GET", <<"connectors", Str(connection_id), "schemas">>, NoQuery, NoBody)

worker_reload_schema(connection_id) ==
    worker_request("POST", <<"connectors", Str(connection_id), "schemas", "reload">>,
                   NoQuery, NoBody)

----------------------------------------------------------------------------
(* worker.py: TOOLS, the registry *)

\* parameters.properties[*].type and parameters.required of every tool
ToolDef(properties, required) == [properties |-> properties, required |-> required]

ConnectionIdOnly == ToolDef([connection_id |-> "string"], {"connection_id"})

\* the registry with an entry for the client method get_table_columns, which
\* execute_tool has no branch for
TOOLS_with_get_table_columns ==
    [list_connections |-> ToolDef([limit |-> "integer", group_id |-> "string"], {}),
     get_connection_status |-> ConnectionIdOnly,
     trigger_sync |-> ToolDef([connection_id |-> "string", force |-> "boolean"],
                              {"connection_id"}),
     trigger_resync |-> ConnectionIdOnly,
     resync_tables |-> ToolDef([connection_id |-> "string", tables |-> "array"],
                               {"connection_id", "tables"}),
     pause_connection |-> ConnectionIdOnly,
     resume_connection |-> ConnectionIdOnly,
     list_groups |-> ToolDef([limit |-> "integer"], {}),
     test_connection |-> ConnectionIdOnly,
     get_schema |-> ConnectionIdOnly,
     list_tables |-> ConnectionIdOnly,
     reload_schema |-> ConnectionIdOnly,
     get_table_columns |-> ToolDef([connection_id |-> "string", schema |-> "string",
                                    table |-> "string"],
                                   {"connection_id", "schema", "table"})]

TOOLS ==
    [list_connections |-> ToolDef([limit |-> "integer", group_id |-> "string"], {}),
     get_connection_status |-> ConnectionIdOnly,
     trigger_sync |-> ToolDef([connection_id |-> "string", force |-> "boolean"],
                              {"connection_id"}),
     trigger_resync |-> ConnectionIdOnly,
     resync_tables |-> ToolDef([connection_id |-> "string", tables |-> "array"],
                               {"connection_id", "tables"}),
     pause_connection |-> ConnectionIdOnly,
     resume_connection |-> ConnectionIdOnly,
     list_groups |-> ToolDef([limit |-> "integer"], {}),
     test_connection |-> ConnectionIdOnly,
     get_schema |-> ConnectionIdOnly,
     list_tables |-> ConnectionIdOnly,
     reload_schema |-> ConnectionIdOnly]

ToolNames == DOMAIN TOOLS

----------------------------------------------------------------------------
(* Normalisation *)

\* worker.py and server.py: _extract_connection_summary (the same text in both)
extract_connection_summary(conn) ==
    LET status == GetOr(conn, "status", EmptyMap) IN
    [id |-> Get(conn, "id"),
     schema |-> Get(conn, "schema"),
     service |-> Get(conn, "service"),
     group_id |-> Get(conn, "group_id"),
     paused |-> Get(conn, "paused"),
     sync_state |-> Get(status, "sync_state"),
     setup_state |-> Get(status, "setup_state"),
     is_historical_sync |-> Get(status, "is_historical_sync"),
     succeeded_at |-> Get(conn, "succeeded_at"),
     failed_at |-> Get(conn, "failed_at")]

\* result.get("data", {}).get("items", [])
DataItems(result) == GetOr(GetOr(result, "data", EmptyMap), "items", <<>>)

\* the tail of list_connections, in worker.py and in server.py
connections_result(result) ==
    LET connections == MapSeq(DataItems(result), extract_connection_summary) IN
    [connections |-> connections, count |-> Len(connections)]

\* worker.py: one task or warning of get_connection_status
code_message_details(t) ==
    [code |-> Get(t, "code"), message |-> Get(t, "message"), details |-> Get(t, "details")]

worker_connection_status(result) ==
    LET data == GetOr(result, "data", EmptyMap)
        status == GetOr(data, "status", EmptyMap)
        tasks == MapSeq(GetOr(status, "tasks", <<>>), code_message_details)
        warnings == MapSeq(GetOr(status, "warnings", <<>>), code_message_details)
    IN [id |-> Get(data, "id"),
        schema |-> Get(data, "schema"),
        service |-> Get(data, "service"),
        group_id |-> Get(data, "group_id"),
        paused |-> Get(data, "paused"),
        status |-> [sync_state |-> Get(status, "sync_state"),
                    setup_state |-> Get(status, "setup_state"),
                    update_state |-> Get(status, "update_state"),
                    is_historical_sync |-> Get(status, "is_historical_sync")],
        tasks |-> tasks,
        warnings |-> warnings,
        succeeded_at |-> Get(data, "succeeded_at"),
        failed_at |-> Get(data, "failed_at")]

group_summary(g) ==
    [id |-> Get(g, "id"), name |-> Get(g, "name"), created_at |-> Get(g, "created_at")]

\* the tail of list_groups, in worker.py and in server.py
groups_result(result) ==
    LET groups == MapSeq(DataItems(result), group_summary) IN
    [groups |-> groups, count |-> Len(groups)]

\* worker.py: one entry of tests in test_connection
setup_test(t) ==
    [title |-> Get(t, "title"),
     status |-> GetOr(t, "status", StrV("UNKNOWN")),
     message |-> Get(t, "message")]

IsPassed(t) == t.status = StrV("PASSED")
IsFailed(t) == t.status = StrV("FAILED")

\* overall_status without "and passed > 0"
overall_status_no_failure(passed, failed) ==
    IF failed = 0 THEN StrV("PASSED") ELSE StrV("FAILED")

\* "PASSED" if failed == 0 and passed > 0 else "FAILED"
overall_status(passed, failed) ==
    IF failed = 0 /\ passed > 0 THEN StrV("PASSED") ELSE StrV("FAILED")

worker_test_result(connection_id, result) ==
    LET data == GetOr(result, "data", EmptyMap)
        tests == MapSeq(GetOr(data, "setup_tests", <<>>), setup_test)
        passed == CountIf(tests, IsPassed)
        failed == CountIf(tests, IsFailed)
    IN [connection_id |-> connection_id,
        overall_status |-> overall_status(passed, failed),
        passed_count |-> passed,
        failed_count |-> failed,
        tests |-> tests]

worker_schema_result(connection_id, result) ==
    LET data == GetOr(result, "data", EmptyMap) IN
    [connection_id |-> connection_id,
     schema_change_handling |-> Get(data, "schema_change_handling"),
     schemas |-> GetOr(data, "schemas", <<>>)]

\* A dict that the code iterates with .items() is the sequence of its
\* [key, value] pairs in insertion order.
table_row(schema_name, item) ==
    [schema |-> schema_name,
     table |-> item.key,
     full_name |-> <<schema_name, ".", item.key>>,
     enabled |-> GetOr(item.value, "enabled", False),
     sync_mode |-> Get(item.value, "sync_mode")]

RECURSIVE list_tables_rows(_)
\* the nested for loops of list_tables
list_tables_rows(schemas) ==
    IF schemas = <<>> THEN <<>>
    ELSE LET schema_name == Head(schemas).key
             items == GetOr(Head(schemas).value, "tables", <<>>)
         IN [i \in 1..Len(items) |-> table_row(schema_name, items[i])]
            \o list_tables_rows(Tail(schemas))

worker_tables_result(connection_id, result) ==
    LET schemas == GetOr(GetOr(result, "data", EmptyMap), "schemas", <<>>)
        tables == list_tables_rows(schemas)
    IN [connection_id |-> connection_id, tables |-> tables, count |-> Len(tables)]

----------------------------------------------------------------------------
(* worker.py: execute_tool *)

\* args[k] succeeds
HasKey(args, k) == args # None /\ k \in DOMAIN args

\* what args[k] raises when it does not
SubscriptError(args, k) ==
    IF args = None
    THEN Exc("TypeError", "'NoneType' object is not subscriptable")
    ELSE Exc("KeyError", k)

\* args.get on an args that is no dict
GetError == Exc("AttributeError", "'NoneType' object has no attribute 'get'")

\* args.get(k) where the code has args[k]
arg_item_get(args, k) ==
    [kind |-> "value", value |-> IF args = None THEN None ELSE Get(args, k)]

\* args[k]
arg_item(args, k) ==
    IF HasKey(args, k) THEN [kind |-> "value", value |-> args[k]]
    ELSE Raised(SubscriptError(args, k))

\* the branches whose only argument is args["connection_id"]
worker_by_connection_id(tool_name, connection_id) ==
    CASE tool_name = "get_connection_status" -> worker_get_connection(connection_id)
      [] tool_name = "trigger_resync" -> worker_trigger_resync(connection_id)
      [] tool_name = "pause_connection" -> worker_pause_connection(connection_id)
      [] tool_name = "resume_connection" -> worker_resume_connection(connection_id)
      [] tool_name = "test_connection" -> worker_test_connection(connection_id)
      [] tool_name = "get_schema" -> worker_get_schema(connection_id)
      [] tool_name = "list_tables" -> worker_get_schema(connection_id)
      [] tool_name = "reload_schema" -> worker_reload_schema(connection_id)

\* list_connections without its else: the account-wide call follows the
\* group-scoped one
worker_list_connections_both(args) ==
    IF args = None THEN Raised(GetError)
    ELSE LET limit == GetOr(args, "limit", IntV("100"))
             group_id == Get(args, "group_id")
         IN IF Truthy(group_id)
            THEN [kind |-> "request",
                  reqs |-> <<worker_list_connections_in_group(group_id, limit),
                             worker_list_connections(limit)>>]
            ELSE Issue(worker_list_connections(limit))

\* the branch of list_connections up to its await
worker_list_connections_call(args) ==
    IF args = None THEN Raised(GetError)
    ELSE LET limit == GetOr(args, "limit", IntV("100"))
             group_id == Get(args, "group_id")
         IN IF Truthy(group_id)
            THEN Issue(worker_list_connections_in_group(group_id, limit))
            ELSE Issue(worker_list_connections(limit))

\* execute_tool up to the await of its client call: the request the client
\* sends, a raise, or (the last else) a return without any client call
execute_tool_call(tool_name, args) ==
    LET connection_id == arg_item(args, "connection_id")
        tables == arg_item(args, "tables")
    IN
    CASE tool_name = "list_connections" -> worker_list_connections_call(args)
      [] tool_name = "trigger_sync" ->
            IF connection_id.kind = "raise" THEN connection_id
            ELSE Issue(worker_trigger_sync(connection_id.value, GetOr(args, "force", False)))
      [] tool_name = "resync_tables" ->
            IF connection_id.kind = "raise" THEN connection_id
            ELSE IF tables.kind = "raise" THEN tables
            ELSE worker_resync_tables(connection_id.value, tables.value)
      [] tool_name = "list_groups" ->
            IF args = None THEN Raised(GetError)
            ELSE Issue(worker_list_groups(GetOr(args, "limit", IntV("100"))))
      [] tool_name \in {"get_connection_status", "trigger_resync", "pause_connection",
                        "resume_connection", "test_connection", "get_schema",
                        "list_tables", "reload_schema"} ->
            IF connection_id.kind = "raise" THEN connection_id
            ELSE Issue(worker_by_connection_id(tool_name, connection_id.value))
      [] OTHER -> [kind |-> "return", value |-> [error |-> [text |-> "Unknown tool: {}",
                                                          arg |-> tool_name]]]

\* {"success": True, ...} of the trigger, pause, resume and reload branches
worker_success(tool_name, args) ==
    CASE tool_name = "trigger_sync" ->
            [success |-> True, message |-> StrV("Sync triggered successfully"),
             connection_id |-> args.connection_id]
      [] tool_name = "trigger_resync" ->
            [success |-> True, message |-> StrV("Historical resync triggered successfully"),
             connection_id |-> args.connection_id]
      [] tool_name = "resync_tables" ->
            [success |-> True, message |-> StrV("Table resync triggered successfully"),
             connection_id |-> args.connection_id, tables |-> args.tables]
      [] tool_name = "pause_connection" ->
            [success |-> True, connection_id |-> args.connection_id, paused |-> True,
             message |-> StrV("Connection paused successfully")]
      [] tool_name = "resume_connection" ->
            [success |-> True, connection_id |-> args.connection_id, paused |-> False,
             message |-> StrV("Connection resumed successfully")]
      [] tool_name = "reload_schema" ->
            [success |-> True, connection_id |-> args.connection_id,
             message |-> StrV("Schema reload triggered successfully")]

\* execute_tool from the value its client call returned to its return value
execute_tool_return(tool_name, args, result) ==
    CASE tool_name = "list_connections" -> connections_result(result)
      [] tool_name = "get_connection_status" -> worker_connection_status(result)
      [] tool_name = "list_groups" -> groups_result(result)
      [] tool_name = "test_connection" -> worker_test_result(args.connection_id, result)
      [] tool_name = "get_schema" -> worker_schema_result(args.connection_id, result)
      [] tool_name = "list_tables" -> worker_tables_result(args.connection_id, result)
      [] OTHER -> worker_success(tool_name, args)

----------------------------------------------------------------------------
(* Upstream replies *)

\* the reply to one request: an HTTP response with a status and a body text,
\* or no response at all (fetch rejects, httpx raises a transport error)
HttpReply(status, text) == [kind |-> "http", status |-> status, text |-> text]
NetworkError == [kind |-> "neterror"]

JsonText(value) == [t |-> "json", value |-> value]
EmptyText == [t |-> "empty"]
InvalidText == [t |-> "invalid"]

IsSuccess(status) == status >= 200 /\ status < 300

\* worker.py _request after fetch: the status is not looked at;
\* json.loads(text) if text else {}
worker_request_result(reply) ==
    IF reply.kind = "neterror" THEN Raised(Exc("JsError", "fetch failed"))
    ELSE IF reply.text = EmptyText THEN [kind |-> "value", value |-> EmptyMap]
    ELSE IF reply.text = InvalidText THEN Raised(Exc("JSONDecodeError", "Expecting value"))
    ELSE [kind |-> "value", value |-> reply.text.value]

----------------------------------------------------------------------------
(* worker.py: on_fetch *)

\* an error string: a format text and the value interpolated into it
ErrText(text, arg) == [text |-> text, arg |-> arg]

\* str(e): a KeyError shows the repr of its key, the others their message
StrExc(e) == IF e.exc = "KeyError" THEN ErrText("'{}'", e.msg) ELSE ErrText(e.msg, "")

json_response(data, status) == [status |-> status, body |-> data]

Responded(r) == [kind |-> "response", resp |-> r]

\* the two except clauses of on_fetch
on_fetch_except(e) ==
    IF e.exc = "JSONDecodeError"
    THEN json_response([error |-> ErrText("Invalid JSON", "")], 400)
    ELSE json_response([error |-> StrExc(e)], 500)

\* on_fetch without its registry check: every name goes on to execute_tool
NotInTools_unchecked(tool_name) == FALSE

\* tool_name not in TOOLS
NotInTools(tool_name) == ~(tool_name.t = "str" /\ tool_name.v \in ToolNames)

\* not api_key or not api_secret
CredentialsMissing(env) ==
    ~Truthy(env.FIVETRAN_API_KEY) \/ ~Truthy(env.FIVETRAN_API_SECRET)

\* the try block of the execute route, from the parsed body to the await of
\* the upstream request (or to the response when there is none)
on_fetch_execute(data, env) ==
    IF data.t = "list"
    THEN Responded(on_fetch_except(
             Exc("AttributeError", "'list' object has no attribute 'get'")))
    ELSE LET tool_name == Get(data.value, "tool")
             args == GetOr(data.value, "arguments", EmptyMap)
         IN IF ~Truthy(tool_name)
            THEN Responded(json_response([error |-> ErrText("Missing 'tool' field", "")], 400))
            ELSE IF NotInTools(tool_name)
            THEN Responded(json_response(
                     [error |-> ErrText("Unknown tool: {}", Str(tool_name))], 400))
            ELSE IF CredentialsMissing(env)
            THEN Responded(json_response(
                     [error |-> ErrText(
                         "FIVETRAN_API_KEY and FIVETRAN_API_SECRET must be configured", "")],
                     500))
            ELSE LET out == execute_tool_call(Str(tool_name), args) IN
                 CASE out.kind = "raise" -> Responded(on_fetch_except(out.exc))
                   [] out.kind = "return" ->
                         Responded(json_response([result |-> out.value], 200))
                   [] out.kind = "request" ->
                         [kind |-> "request", reqs |-> out.reqs,
                          tool_name |-> Str(tool_name), args |-> args]

\* on_fetch from the request to its response or to the await of the upstream
\* request; path is the last segment of the URL
on_fetch_call(request) ==
    IF request.method = "OPTIONS"
    THEN Responded([status |-> 204, body |-> EmptyMap, cors |-> TRUE])
    ELSE IF request.path = "" \/ request.path = "health"
    THEN Responded(json_response(
             [status |-> StrV("ok"), server |-> StrV("Fivetran MCP Server")], 200))
    ELSE IF request.path = "mcp"
    THEN Responded(json_response(
             [name |-> StrV("Fivetran MCP Server"), version |-> StrV("0.3.0"),
              protocol |-> StrV("mcp"), transport |-> StrV("streamable-http")], 200))
    ELSE IF request.path = "tools"
    THEN Responded(json_response([tools |-> TOOLS], 200))
    ELSE IF request.path = "execute" /\ request.method = "POST"
    THEN IF request.body = InvalidText
         THEN Responded(on_fetch_except(Exc("JSONDecodeError", "Expecting value")))
         ELSE on_fetch_execute(request.body.value, request.env)
    ELSE Responded(json_response([error |-> ErrText("Not found", "")], 404))

\* on_fetch from the reply of the upstream to its response
on_fetch_reply(tool_name, args, reply) ==
    LET got == worker_request_result(reply) IN
    IF got.kind = "raise" THEN on_fetch_except(got.exc)
    ELSE json_response([result |-> execute_tool_return(tool_name, args, got.value)], 200)

----------------------------------------------------------------------------
(* fivetran_api.py: FivetranClient *)

\* _request up to the await: one httpx request; json=None sends no body
api_request(method, path, params, json) == Req(method, path, params, json)

api_list_connections(limit) ==
    api_request("GET", <<"v1", "connections">>, [limit |-> Str(limit)], NoBody)

api_get_connection(connection_id) ==
    api_request("GET", <<"v1", "connections", Str(connection_id)>>, NoQuery, NoBody)

api_trigger_sync(connection_id, force) ==
    api_request("POST", <<"v1", "connections", Str(connection_id), "sync">>, NoQuery,
                [force |-> force])

\* scope is None in every call of server.py: json_body stays empty, json=None
api_trigger_resync(connection_id) ==
    api_request("POST", <<"v1", "connections", Str(connection_id), "resync">>, NoQuery, NoBody)

api_update_connection(connection_id, updates) ==
    api_request("PATCH", <<"v1", "connections", Str(connection_id)>>, NoQuery, updates)

api_pause_connection(connection_id) == api_update_connection(connection_id, [paused |-> True])

api_resume_connection(connection_id) == api_update_connection(connection_id, [paused |-> False])

api_list_groups(limit) ==
    api_request("GET", <<"v1", "groups">>, [limit |-> Str(limit)], NoBody)

api_list_connections_in_group(group_id, limit) ==
    api_request("GET", <<"v1", "groups", Str(group_id), "connections">>,
                [limit |-> Str(limit)], NoBody)

api_resync_tables(connection_id, tables) ==
    api_request("POST",
                <<"v1", "connections", Str(connection_id), "schemas", "tables", "resync">>,
                NoQuery, [schema |-> tables])

api_test_connection(connection_id) ==
    api_request("POST", <<"v1", "connections", Str(connection_id), "test">>, NoQuery, NoBody)

\* _request after the await: raise_for_status(), then response.json()
api_request_result(reply) ==
    IF reply.kind = "neterror" THEN Raised(Exc("TransportError", "request failed"))
    ELSE IF ~IsSuccess(reply.status) THEN Raised(Exc("HTTPStatusError", "error response"))
    ELSE IF reply.text \in {EmptyText, InvalidText}
    THEN Raised(Exc("JSONDecodeError", "Expecting value"))
    ELSE [kind |-> "value", value |-> reply.text.value]

----------------------------------------------------------------------------
(* server.py *)

ServerTools == {"list_connections", "get_connection_status", "trigger_sync",
                "trigger_resync", "resync_tables", "pause_connection",
                "resume_connection", "list_groups"}

\* os.environ.get(a) or os.environ.get(b)
EnvOr(env, a, b) == IF Truthy(env[a]) THEN env[a] ELSE env[b]

get_client_key(env) == EnvOr(env, "FIVETRAN_SYNC_API_KEY", "FIVETRAN_API_KEY")
get_client_secret(env) == EnvOr(env, "FIVETRAN_SYNC_API_SECRET", "FIVETRAN_API_SECRET")

\* the FivetranClient that FivetranClient(api_key, api_secret) constructs
NewClient(env) == [api_key |-> get_client_key(env), api_secret |-> get_client_secret(env)]

\* _get_client without its "if _client is not None" return: every call reads
\* the environment and constructs a client
get_client_uncached(current, env) ==
    IF ~Truthy(get_client_key(env)) \/ ~Truthy(get_client_secret(env))
    THEN Raised(Exc("ValueError", "environment variables are required"))
    ELSE [kind |-> "value", value |-> NewClient(env), made |-> TRUE]

\* _get_client: the value _client has after the call ("raise" when it raises),
\* and whether the call constructed a FivetranClient
get_client(current, env) ==
    IF current # None THEN [kind |-> "value", value |-> current, made |-> FALSE]
    ELSE IF ~Truthy(get_client_key(env)) \/ ~Truthy(get_client_secret(env))
    THEN Raised(Exc("ValueError", "environment variables are required"))
    ELSE [kind |-> "value", value |-> NewClient(env), made |-> TRUE]

\* the client call of list_connections
server_list_connections_call(args) ==
    IF Truthy(args.group_id)
    THEN Issue(api_list_connections_in_group(args.group_id, args.limit))
    ELSE Issue(api_list_connections(args.limit))

\* the one client method the other tool functions call
server_client_call(tool, args) ==
    CASE tool = "get_connection_status" -> api_get_connection(args.connection_id)
      [] tool = "trigger_sync" -> api_trigger_sync(args.connection_id, args.force)
      [] tool = "trigger_resync" -> api_trigger_resync(args.connection_id)
      [] tool = "resync_tables" -> api_resync_tables(args.connection_id, args.tables)
      [] tool = "pause_connection" -> api_pause_connection(args.connection_id)
      [] tool = "resume_connection" -> api_resume_connection(args.connection_id)
      [] tool = "list_groups" -> api_list_groups(args.limit)

\* a tool function after client = _get_client(), up to its await
server_tool_call(tool, args) ==
    IF tool = "list_connections" THEN server_list_connections_call(args)
    ELSE Issue(server_client_call(tool, args))

server_connection_status(result) ==
    LET data == GetOr(result, "data", EmptyMap)
        status == GetOr(data, "status", EmptyMap)
    IN [id |-> Get(data, "id"),
        schema |-> Get(data, "schema"),
        service |-> Get(data, "service"),
        group_id |-> Get(data, "group_id"),
        paused |-> Get(data, "paused"),
        sync_frequency |-> Get(data, "sync_frequency"),
        schedule_type |-> Get(data, "schedule_type"),
        status |-> [sync_state |-> Get(status, "sync_state"),
                    setup_state |-> Get(status, "setup_state"),
                    update_state |-> Get(status, "update_state"),
                    is_historical_sync |-> Get(status, "is_historical_sync"),
                    rescheduled_for |-> Get(status, "rescheduled_for")],
        tasks |-> GetOr(status, "tasks", <<>>),
        warnings |-> GetOr(status, "warnings", <<>>),
        succeeded_at |-> Get(data, "succeeded_at"),
        failed_at |-> Get(data, "failed_at")]

\* a tool function from the value its client call returned to its return value
server_tool_return(tool, args, result) ==
    CASE tool = "list_connections" -> connections_result(result)
      [] tool = "get_connection_status" -> server_connection_status(result)
      [] tool = "trigger_sync" ->
            [success |-> True,
             message |-> GetOr(result, "message", StrV("Sync triggered successfully")),
             connection_id |-> args.connection_id]
      [] tool = "trigger_resync" ->
            [success |-> True,
             message |-> GetOr(result, "message",
                               StrV("Historical resync triggered successfully")),
             connection_id |-> args.connection_id]
      [] tool = "resync_tables" ->
            [success |-> True,
             message |-> GetOr(result, "message", StrV("Table resync triggered successfully")),
             connection_id |-> args.connection_id,
             tables |-> args.tables]
      [] tool = "pause_connection" ->
            [success |-> True, connection_id |-> args.connection_id,
             paused |-> GetOr(GetOr(result, "data", EmptyMap), "paused", True),
             message |-> StrV("Connection paused successfully")]
      [] tool = "resume_connection" ->
            [success |-> True, connection_id |-> args.connection_id,
             paused |-> GetOr(GetOr(result, "data", EmptyMap), "paused", False),
             message |-> StrV("Connection resumed successfully")]
      [] tool = "list_groups" -> groups_result(result)

\* what the tool function hands back to FastMCP: its return value or its exception
Returned(value) == [kind |-> "result", value |-> value]

server_tool_reply(tool, args, reply) ==
    LET got == api_request_result(reply) IN
    IF got.kind = "raise" THEN got
    ELSE Returned(server_tool_return(tool, args, got.value))

----------------------------------------------------------------------------
(* Inputs: the calls *)

\* "schema.table" entries and entries that are not of that form
TableNames ==
    {<<"p", ".", "u">>, <<"p", ".", "o">>, <<"a", ".", "e">>, <<"u">>,
     <<"p", ".", "u", ".", "x">>}

TableLists == {ListV(l) : l \in SeqUpTo(TableNames, MaxTables)}

\* the values a caller of the execute route may give each argument: of the
\* declared type and of another type
ArgValues(param) ==
    CASE param = "connection_id" -> {StrV("c1"), IntV("5")}
      [] param = "force" -> {True, False, StrV("yes")}
      [] param = "limit" -> {IntV("10"), StrV("abc")}
      [] param = "group_id" -> {StrV("g1"), StrV(""), IntV("7")}
      [] param = "tables" -> TableLists \cup {CharsV(<<"p", ".", "u">>), IntV("5")}

\* the dicts that give some of the parameters P a value
ArgDicts(P) ==
    UNION {{f \in [S -> UNION {ArgValues(p) : p \in S}] : \A p \in S : f[p] \in ArgValues(p)} :
           S \in SUBSET P}

\* names that are no tool; get_table_columns is a client method without a tool
UnknownNames == {"nonexistent_tool", "get_table_columns"}

\* the JSON bodies of a POST to the execute route
ExecuteBodies ==
    {InvalidText, JsonText(ListV(<<>>))}
    \cup {JsonText(DictV(d)) : d \in {EmptyMap, [tool |-> StrV("")], [tool |-> None],
                                      [arguments |-> EmptyMap]}}
    \cup {JsonText(DictV([tool |-> StrV(n), arguments |-> a])) :
            n \in UnknownNames, a \in {EmptyMap, [connection_id |-> StrV("c1")]}}
    \cup {JsonText(DictV([tool |-> IntV("5"), arguments |-> EmptyMap]))}
    \cup UNION {{JsonText(DictV([tool |-> StrV(n)])),
                 JsonText(DictV([tool |-> StrV(n), arguments |-> None]))}
                \cup {JsonText(DictV([tool |-> StrV(n), arguments |-> a])) :
                        a \in ArgDicts(DOMAIN TOOLS[n].properties)} :
                n \in ToolNames}

\* env of the worker: the two bindings, unset, empty or set
WorkerEnvs ==
    [FIVETRAN_API_KEY : {None, StrV(""), StrV("k")},
     FIVETRAN_API_SECRET : {None, StrV(""), StrV("s")}]

WorkerRequests ==
    {[method |-> "POST", path |-> "execute", body |-> b, env |-> e] :
        b \in ExecuteBodies, e \in WorkerEnvs}
    \cup {[method |-> m, path |-> q, body |-> EmptyText, env |-> e] :
            m \in {"GET", "OPTIONS"}, q \in {"", "health", "mcp", "tools", "execute", "other"},
            e \in {[FIVETRAN_API_KEY |-> None, FIVETRAN_API_SECRET |-> None]}}

\* the arguments FastMCP hands a tool function of server.py: typed as the
\* signature says, defaults filled in
ServerArgs(tool) ==
    CASE tool = "list_connections" ->
            [limit : {IntV("100"), IntV("10")}, group_id : {None, StrV(""), StrV("g1")}]
      [] tool = "trigger_sync" -> [connection_id : {StrV("c1")}, force : {True, False}]
      [] tool = "resync_tables" -> [connection_id : {StrV("c1")}, tables : TableLists]
      [] tool = "list_groups" -> [limit : {IntV("100"), IntV("10")}]
      [] OTHER -> [connection_id : {StrV("c1")}]

\* os.environ, the four variables _get_client reads, each unset or set
Environs ==
    [FIVETRAN_SYNC_API_KEY : {None, StrV("sk")},
     FIVETRAN_API_KEY : {None, StrV("k")},
     FIVETRAN_SYNC_API_SECRET : {None, StrV("ss")},
     FIVETRAN_API_SECRET : {None, StrV("s")}]

----------------------------------------------------------------------------
(* Inputs: the replies of the upstream *)

Statuses == {200, 404, 500}

Connections ==
    {EmptyMap,
     [id |-> StrV("c1"), service |-> StrV("postgres"), paused |-> False,
      status |-> [sync_state |-> StrV("syncing"), setup_state |-> StrV("connected"),
                  is_historical_sync |-> False, update_state |-> StrV("on_schedule")],
      connected_by |-> StrV("user1")],
     [id |-> StrV("c2"), schema |-> StrV("public"), group_id |-> StrV("g1"),
      succeeded_at |-> StrV("2024-01-01"), status |-> EmptyMap],
     [id |-> StrV("c3"), paused |-> True, sync_state |-> StrV("paused"),
      setup_state |-> None]}

Tasks ==
    {EmptyMap,
     [code |-> StrV("reconnect"), message |-> StrV("Reconnect"), details |-> StrV("d")],
     [code |-> StrV("resync"), message |-> StrV("Resync"), severity |-> StrV("high")]}

TaskLists == SeqUpTo(Tasks, MaxItems)

ConnectionDetails ==
    {EmptyMap, [id |-> StrV("c1"), sync_frequency |-> IntV("60")]}
    \cup {[id |-> StrV("c1"), status |-> [sync_state |-> StrV("syncing"), tasks |-> l]] :
            l \in TaskLists}
    \cup {[id |-> StrV("c1"), status |-> [update_state |-> StrV("delayed"), warnings |-> l]] :
            l \in TaskLists}
    \cup {[id |-> StrV("c1"), paused |-> False, status |-> [tasks |-> l, warnings |-> l]] :
            l \in TaskLists}

Groups ==
    {EmptyMap,
     [id |-> StrV("g1"), name |-> StrV("warehouse"), created_at |-> StrV("2024-01-01")],
     [id |-> StrV("g2"), last_updated_at |-> StrV("2024-02-02")]}

SetupTests ==
    {[title |-> StrV("a"), status |-> StrV("PASSED")],
     [title |-> StrV("b"), status |-> StrV("FAILED"), message |-> StrV("no route")],
     [title |-> StrV("c"), status |-> StrV("SKIPPED")],
     [title |-> StrV("d")]}

Schemas ==
    {<<>>,
     <<[key |-> "public",
        value |-> [tables |-> <<[key |-> "users",
                                 value |-> [enabled |-> True, sync_mode |-> StrV("SOFT_DELETE")]],
                                [key |-> "orders", value |-> EmptyMap]>>]],
       [key |-> "analytics", value |-> EmptyMap]>>}

\* {"data": {"items": [...]}} and what has less
ListBodies(S) ==
    {EmptyMap, [data |-> EmptyMap]} \cup {[data |-> [items |-> l]] : l \in SeqUpTo(S, MaxItems)}

\* the JSON bodies the upstream may answer the request of a tool with
ReplyBodies(tool) ==
    CASE tool = "list_connections" -> ListBodies(Connections)
      [] tool = "list_groups" -> ListBodies(Groups)
      [] tool = "get_connection_status" ->
            {EmptyMap} \cup {[data |-> d] : d \in ConnectionDetails}
      [] tool = "test_connection" ->
            {EmptyMap, [data |-> EmptyMap]}
            \cup {[data |-> [setup_tests |-> l]] : l \in SeqUpTo(SetupTests, MaxTests)}
      [] tool \in {"get_schema", "list_tables"} ->
            {EmptyMap}
            \cup {[data |-> [schema_change_handling |-> StrV("ALLOW_ALL"), schemas |-> x]] :
                    x \in Schemas}
      [] OTHER ->
            {EmptyMap,
             [code |-> StrV("Success"), message |-> StrV("Sync has been successfully triggered")],
             [code |-> StrV("Success"), data |-> [paused |-> True]],
             [code |-> StrV("Success"), data |-> [paused |-> False]],
             [code |-> StrV("NotFound"), message |-> StrV("Connection not found")]}

Replies(tool) ==
    {NetworkError}
    \cup {HttpReply(st, tx) : st \in Statuses,
                              tx \in {EmptyText, InvalidText}
                                     \cup {JsonText(b) : b \in ReplyBodies(tool)}}

----------------------------------------------------------------------------
(* The state machine *)

NoCall == [host |-> "none"]
NoResp == [kind |-> "none"]

\* the worker reads no process environment: its env comes with each request
NoEnviron ==
    [FIVETRAN_SYNC_API_KEY |-> None, FIVETRAN_API_KEY |-> None,
     FIVETRAN_SYNC_API_SECRET |-> None, FIVETRAN_API_SECRET |-> None]

Init ==
    /\ pc = "idle"
    /\ call = NoCall
    /\ upstream = <<>>
    /\ resp = NoResp
    /\ host \in {"worker", "server"}
    /\ environ \in IF host = "server" THEN Environs ELSE {NoEnviron}
    /\ client = None
    /\ constructed = 0
    /\ refused = FALSE

\* worker.py on_fetch, from the request to its response or to the await of fetch
WorkerFetch ==
    /\ host = "worker"
    /\ pc = "idle"
    /\ \E request \in WorkerRequests :
          LET out == on_fetch_call(request) IN
          /\ call' = [host |-> "worker", request |-> request]
          /\ IF out.kind = "request"
             THEN /\ upstream' = upstream \o out.reqs
                  /\ resp' = resp
                  /\ pc' = "await"
             ELSE /\ upstream' = upstream
                  /\ resp' = out.resp
                  /\ pc' = "done"
    /\ UNCHANGED <<environ, client, host, constructed, refused>>

\* worker.py on_fetch, from the reply of the upstream to its response
WorkerReply ==
    /\ pc = "await"
    /\ call.host = "worker"
    /\ LET out == on_fetch_call(call.request) IN
       \E reply \in Replies(out.tool_name) :
          /\ resp' = on_fetch_reply(out.tool_name, out.args, reply)
          /\ call' = [host |-> "worker", request |-> call.request, reply |-> reply]
    /\ pc' = "done"
    /\ UNCHANGED <<upstream, environ, client, host, constructed, refused>>

\* server.py: a tool function, from its call to the await of the httpx request,
\* or to the raise of _get_client
ServerCall ==
    /\ host = "server"
    /\ pc = "idle"
    /\ \E tool \in ServerTools :
       \E args \in ServerArgs(tool) :
          LET got == get_client(client, environ) IN
          /\ call' = [host |-> "server", tool |-> tool, args |-> args]
          /\ IF got.kind = "raise"
             THEN /\ client' = client
                  /\ upstream' = upstream
                  /\ resp' = got
                  /\ pc' = "done"
                  /\ constructed' = constructed
                  /\ refused' = TRUE
             ELSE /\ client' = got.value
                  /\ upstream' = upstream \o server_tool_call(tool, args).reqs
                  /\ resp' = resp
                  /\ pc' = "await"
                  /\ constructed' = IF got.made /\ constructed < MaxConstructed
                                    THEN constructed + 1 ELSE constructed
                  /\ refused' = refused
    /\ UNCHANGED <<environ, host>>

\* server.py: a tool function, from the reply of the upstream to its return or raise
ServerReply ==
    /\ pc = "await"
    /\ call.host = "server"
    /\ \E reply \in Replies(call.tool) :
          /\ resp' = server_tool_reply(call.tool, call.args, reply)
          /\ call' = [host |-> "server", tool |-> call.tool, args |-> call.args,
                      reply |-> reply]
    /\ pc' = "done"
    /\ UNCHANGED <<upstream, environ, client, host, constructed, refused>>

\* the response has been delivered; the host waits for the next call
NextCall ==
    /\ pc = "done"
    /\ pc' = "idle"
    /\ call' = NoCall
    /\ upstream' = <<>>
    /\ resp' = NoResp
    /\ UNCHANGED <<environ, client, host, constructed, refused>>

\* the environment of the server process changes between two calls
SetEnviron ==
    /\ host = "server"
    /\ pc = "idle"
    /\ \E e \in Environs : e # environ /\ environ' = e
    /\ UNCHANGED <<pc, call, upstream, resp, client, host, constructed, refused>>

Next ==
    \/ WorkerFetch
    \/ WorkerReply
    \/ ServerCall
    \/ ServerReply
    \/ NextCall
    \/ SetEnviron

Spec == Init /\ [][Next]_vars

----------------------------------------------------------------------------
(* What the properties speak of *)

\* the current call is a POST to the execute route of the worker whose body
\* is a JSON object
IsExecute ==
    /\ call.host = "worker"
    /\ call.request.method = "POST"
    /\ call.request.path = "execute"
    /\ call.request.body # InvalidText
    /\ call.request.body.value.t = "dict"

\* its "tool" and "arguments" (under IsExecute)
ExecTool == Get(call.request.body.value.value, "tool")
ExecArgs == GetOr(call.request.body.value.value, "arguments", EmptyMap)

\* the tool is a name of the registry
ExecRegistered == IsExecute /\ ExecTool.t = "str" /\ ExecTool.v \in DOMAIN TOOLS

\* a tool name is given (a "tool" that is absent, null or "" gives none),
\* and it is none of the registry
ExecUnknown ==
    /\ IsExecute
    /\ Truthy(ExecTool)
    /\ ~(ExecTool.t = "str" /\ ExecTool.v \in DOMAIN TOOLS)

\* both bindings of the worker's env hold a non-empty value
ExecCredentials ==
    /\ Truthy(call.request.env.FIVETRAN_API_KEY)
    /\ Truthy(call.request.env.FIVETRAN_API_SECRET)

\* the worker answered {"error": ...}, the server's tool function raised
WorkerError == call.host = "worker" /\ pc = "done" /\ "error" \in DOMAIN resp.body
WorkerResult == call.host = "worker" /\ pc = "done" /\ "result" \in DOMAIN resp.body
ServerRaise == call.host = "server" /\ pc = "done" /\ resp.kind = "raise"
ServerResult == call.host = "server" /\ pc = "done" /\ resp.kind = "result"

\* the tool and the normalized result of a call that returned one
CallTool == IF call.host = "worker" THEN ExecTool.v ELSE call.tool
CallResult == IF call.host = "worker" THEN resp.body.result ELSE resp.value
Succeeded == (WorkerResult /\ ExecRegistered) \/ ServerResult

\* the upstream answered the call
Replied == pc = "done" /\ call.host \in {"worker", "server"} /\ "reply" \in DOMAIN call

\* the JSON object the upstream sent, when it sent one
ReplyJson == call.reply.text.value

----------------------------------------------------------------------------
(* C1 *)

\* C1: executing a tool name that is not in the registry ends in the
\* unknown-tool error (status 400) and no upstream request is issued,
\* whatever the arguments and the credentials.
C1_UnknownToolNoRequest ==
    ExecUnknown =>
        /\ pc = "done"
        /\ upstream = <<>>
        /\ resp.status = 400
        /\ DOMAIN resp.body = {"error"}
        /\ resp.body.error = ErrText("Unknown tool: {}", ExecTool.v)

C1_Witness ==
    /\ ExecUnknown
    /\ ExecCredentials
    /\ ExecArgs # EmptyMap
    /\ WorkerError

----------------------------------------------------------------------------
(* C2 *)

\* the required parameters of the tool that the arguments omit
MissingRequired == TOOLS[ExecTool.v].required \ DOMAIN ExecArgs

\* C2: a call of a registered tool whose arguments omit a required parameter
\* issues no upstream request and ends in an error; once the credentials are
\* configured (the dispatcher is reached) the error is the missing-key error
\* that names an omitted parameter.
C2_MissingArgumentNoRequest ==
    (ExecRegistered /\ ExecArgs # None /\ MissingRequired # {}) =>
        /\ pc = "done"
        /\ upstream = <<>>
        /\ WorkerError
        /\ ExecCredentials =>
              /\ resp.status = 500
              /\ \E p \in MissingRequired : resp.body.error = ErrText("'{}'", p)

C2_Witness ==
    /\ ExecRegistered
    /\ ExecTool.v = "resync_tables"
    /\ ExecArgs # None
    /\ MissingRequired = {"tables"}
    /\ ExecCredentials
    /\ WorkerError

----------------------------------------------------------------------------
(* C3 *)

\* the runtime type of a value, in the words of the registry
SchemaType(x) ==
    CASE x.t = "str" -> "string"
      [] x.t = "int" -> "integer"
      [] x.t = "bool" -> "boolean"
      [] x.t = "list" -> "array"
      [] OTHER -> "null"

\* some argument is present with a type other than the declared one
MistypedArgument ==
    \E p \in DOMAIN ExecArgs :
        /\ p \in DOMAIN TOOLS[ExecTool.v].properties
        /\ SchemaType(ExecArgs[p]) # TOOLS[ExecTool.v].properties[p]

\* C3: a call with a present argument of the wrong runtime type fails before
\* any upstream request is issued.
C3_InvalidArgumentNoRequest ==
    (ExecRegistered /\ ExecArgs # None /\ MistypedArgument) =>
        /\ pc = "done"
        /\ upstream = <<>>
        /\ WorkerError

----------------------------------------------------------------------------
(* C4 *)

\* C4: a call never issues more than one upstream request, and a call of a
\* registered tool that returns a result has issued exactly one;
\* list_connections issues the group-scoped or the account-wide list call.
C4_ExactlyOneRequest ==
    /\ Len(upstream) <= 1
    /\ pc = "await" => Len(upstream) = 1
    /\ Succeeded => Len(upstream) = 1
    /\ (Succeeded /\ CallTool = "list_connections") =>
          \/ Len(upstream[1].path) = 2 /\ upstream[1].path[2] = "connections"
          \/ Len(upstream[1].path) = 4 /\ upstream[1].path[2] = "groups"

C4_Witness ==
    /\ Succeeded
    /\ CallTool = "list_connections"
    /\ Len(upstream) = 1
    /\ upstream[1].path[2] = "groups"

----------------------------------------------------------------------------
(* C5 *)

\* the upstream answered with an HTTP status outside 200..299
NonSuccessReply ==
    /\ Replied
    /\ call.reply.kind = "http"
    /\ ~(call.reply.status \in 200..299)

\* C5: a call whose upstream request was answered with a non-success status
\* ends in an error, never in a normalized result.
C5_NonSuccessIsError ==
    NonSuccessReply => (WorkerError \/ ServerRaise)

----------------------------------------------------------------------------
(* C6, C7 *)

HasDot(entry) == \E i \in 1..Len(entry) : entry[i] = "."

\* the call is resync_tables with a list of entries for its tables
ResyncTablesCall ==
    \/ /\ ExecRegistered
       /\ ExecTool.v = "resync_tables"
       /\ ExecArgs # None
       /\ "tables" \in DOMAIN ExecArgs
       /\ ExecArgs.tables.t = "list"
    \/ call.host = "server" /\ call.tool = "resync_tables"

ResyncEntries ==
    IF call.host = "worker" THEN ExecArgs.tables.items ELSE call.args.tables.items

\* C6: resync_tables with an entry that has no "." fails; nothing is sent
\* upstream for it.
C6_BareNameRejected ==
    (ResyncTablesCall /\ \E i \in 1..Len(ResyncEntries) : ~HasDot(ResyncEntries[i])) =>
        /\ upstream = <<>>
        /\ pc = "done" => (WorkerError \/ ServerRaise)

\* the place of the first "." of an entry that has one
FirstDot(entry) ==
    CHOOSE i \in 1..Len(entry) : entry[i] = "." /\ \A k \in 1..(i - 1) : entry[k] # "."
SchemaPart(entry) == SubSeq(entry, 1, FirstDot(entry) - 1)
TablePart(entry) == SubSeq(entry, FirstDot(entry) + 1, Len(entry))

\* {schema: {"tables": {table: {}}}} of a list of "schema.table" entries
GroupedBySchema(entries) ==
    [sch \in {SchemaPart(entries[i]) : i \in 1..Len(entries)} |->
        [tables |-> [tb \in {TablePart(entries[i]) :
                               i \in {j \in 1..Len(entries) : SchemaPart(entries[j]) = sch}}
                     |-> EmptyMap]]]

\* C7: for a list of "schema.table" entries (here: at least one), the body
\* resync_tables sends holds the tables grouped by schema, each entry split
\* at its first ".".
C7_BodyGroupedBySchema ==
    (/\ ResyncTablesCall
     /\ ResyncEntries # <<>>
     /\ \A i \in 1..Len(ResyncEntries) : HasDot(ResyncEntries[i])
     /\ upstream # <<>>) =>
        /\ DOMAIN upstream[1].body = {"schemas"}
        /\ upstream[1].body.schemas = GroupedBySchema(ResyncEntries)

----------------------------------------------------------------------------
(* C8 *)

\* setup_tests of the upstream reply
UpstreamTests == GetOr(GetOr(ReplyJson, "data", EmptyMap), "setup_tests", <<>>)

\* how many of them have the status
TestsWithStatus(st) ==
    Cardinality({i \in 1..Len(UpstreamTests) :
                   "status" \in DOMAIN UpstreamTests[i] /\ UpstreamTests[i].status = StrV(st)})

TestConnectionResult ==
    /\ WorkerResult
    /\ ExecRegistered
    /\ ExecTool.v = "test_connection"
    /\ call.reply.text.t = "json"

\* C8: overall_status is "PASSED" exactly when no test of the upstream list
\* has status FAILED and at least one has status PASSED, and "FAILED"
\* otherwise; passed_count and failed_count are those two numbers.
C8_OverallStatus ==
    TestConnectionResult =>
        /\ CallResult.passed_count = TestsWithStatus("PASSED")
        /\ CallResult.failed_count = TestsWithStatus("FAILED")
        /\ CallResult.overall_status \in {StrV("PASSED"), StrV("FAILED")}
        /\ CallResult.overall_status = StrV("PASSED")
              <=> (TestsWithStatus("FAILED") = 0 /\ TestsWithStatus("PASSED") > 0)

C8_Witness ==
    /\ TestConnectionResult
    /\ Len(UpstreamTests) = 2
    /\ TestsWithStatus("PASSED") = 1
    /\ TestsWithStatus("FAILED") = 0
    /\ CallResult.overall_status = StrV("PASSED")

----------------------------------------------------------------------------
(* C9 *)

ListConnectionsResult == Succeeded /\ CallTool = "list_connections"

\* C9: a connection summary is a fixed point of _extract_connection_summary.
C9_SummaryIdempotent ==
    ListConnectionsResult =>
        \A i \in 1..Len(CallResult.connections) :
            extract_connection_summary(CallResult.connections[i]) = CallResult.connections[i]

----------------------------------------------------------------------------
(* C10 *)

ConnectionStatusResult ==
    /\ Succeeded
    /\ CallTool = "get_connection_status"
    /\ call.reply.text.t = "json"

UpstreamStatus == GetOr(GetOr(ReplyJson, "data", EmptyMap), "status", EmptyMap)

\* the entry has the three keys and no other, each with the upstream value or null
ReshapedFrom(entry, raw) ==
    /\ DOMAIN entry = {"code", "message", "details"}
    /\ \A k \in {"code", "message", "details"} :
          entry[k] = IF k \in DOMAIN raw THEN raw[k] ELSE None

ReshapedList(entries, raws) ==
    /\ Len(entries) = Len(raws)
    /\ \A i \in 1..Len(entries) : ReshapedFrom(entries[i], raws[i])

\* C10: every entry of tasks and of warnings in the get_connection_status
\* result has exactly the keys code, message and details.
C10_TasksReshaped ==
    ConnectionStatusResult =>
        /\ ReshapedList(CallResult.tasks, GetOr(UpstreamStatus, "tasks", <<>>))
        /\ ReshapedList(CallResult.warnings, GetOr(UpstreamStatus, "warnings", <<>>))

----------------------------------------------------------------------------
(* C11 *)

\* what the worker's execute_tool does for the tool and arguments of the
\* current call of the server host
WorkerSameCall == execute_tool_call(call.tool, call.args)

\* C11: for a tool both hosts expose, the two hosts issue the same upstream
\* request and, for the same upstream reply, return the same normalized
\* result (and one fails exactly when the other does).
C11_HostsEquivalent ==
    /\ (call.host = "server" /\ pc = "await") =>
          /\ WorkerSameCall.kind = "request"
          /\ upstream = WorkerSameCall.reqs
    /\ (call.host = "server" /\ Replied) =>
          LET got == worker_request_result(call.reply) IN
          /\ ServerRaise <=> got.kind = "raise"
          /\ ServerResult =>
                resp.value = execute_tool_return(call.tool, call.args, got.value)

----------------------------------------------------------------------------
(* C12 *)

\* arguments that hold every required parameter
FullArgs == [connection_id |-> StrV("c1"), tables |-> ListV(<<>>)]

\* execute_tool handles the name in a branch of its own, not in its last else
HasBranch(name) == execute_tool_call(name, FullArgs).kind # "return"

\* C12: the names of TOOLS are the names execute_tool has a branch for, and a
\* call of a registered name never ends in the "Unknown tool" value of the
\* last else of execute_tool.
C12_RegistryDispatcherLockstep ==
    /\ \A name \in DOMAIN TOOLS \cup UnknownNames : HasBranch(name) <=> name \in DOMAIN TOOLS
    /\ (ExecRegistered /\ WorkerResult) => "error" \notin DOMAIN resp.body.result

C12_Witness ==
    /\ ExecRegistered
    /\ ExecTool.v = "reload_schema"
    /\ WorkerResult
    /\ DOMAIN resp.body.result = {"success", "connection_id", "message"}

----------------------------------------------------------------------------
(* C13 *)

\* the worker answered a POST of the execute route
ExecuteAnswered ==
    /\ call.host = "worker"
    /\ pc = "done"
    /\ call.request.method = "POST"
    /\ call.request.path = "execute"

\* the failures of an execute request: a body that is not a JSON object, no
\* tool name or an unknown one, a missing required argument, missing
\* credentials, a transport failure, a non-success upstream status
ExecuteFailure ==
    \/ ~IsExecute
    \/ ~ExecRegistered
    \/ ~ExecCredentials
    \/ (ExecArgs # None /\ MissingRequired # {})
    \/ (Replied /\ call.reply.kind = "neterror")
    \/ NonSuccessReply

\* C13: the body of every execute response holds exactly one of "result" and
\* "error", a result never holds an "error" of its own, and every failure of
\* the request is answered with "error".
C13_ResultOrError ==
    ExecuteAnswered =>
        /\ DOMAIN resp.body \in {{"result"}, {"error"}}
        /\ WorkerResult => "error" \notin DOMAIN resp.body.result
        /\ ExecuteFailure => WorkerError

----------------------------------------------------------------------------
(* C14 *)

\* the path /v1/connections/{id} followed by the segments of rest
ConnectionPath(path, rest) ==
    /\ Len(path) = 3 + Len(rest)
    /\ SubSeq(path, 1, 2) = <<"v1", "connections">>
    /\ SubSeq(path, 4, Len(path)) = rest

\* the rows of the REST table: method, path template and body of the request
\* of every client operation
ListConnectionsRow(r) ==
    r.method = "GET" /\ r.path = <<"v1", "connections">> /\ r.body = NoBody
ListConnectionsInGroupRow(r) ==
    /\ r.method = "GET" /\ r.body = NoBody
    /\ Len(r.path) = 4 /\ r.path[1] = "v1" /\ r.path[2] = "groups" /\ r.path[4] = "connections"
GetConnectionRow(r) ==
    r.method = "GET" /\ ConnectionPath(r.path, <<>>) /\ r.body = NoBody
TriggerSyncRow(r) ==
    r.method = "POST" /\ ConnectionPath(r.path, <<"sync">>) /\ DOMAIN r.body = {"force"}
TriggerResyncRow(r) ==
    /\ r.method = "POST" /\ ConnectionPath(r.path, <<"resync">>)
    /\ (r.body = NoBody \/ DOMAIN r.body = {"scope"})
UpdateConnectionRow(r) ==
    r.method = "PATCH" /\ ConnectionPath(r.path, <<>>) /\ DOMAIN r.body = {"paused"}
ListGroupsRow(r) ==
    r.method = "GET" /\ r.path = <<"v1", "groups">> /\ r.body = NoBody
ResyncTablesRow(r) ==
    /\ r.method = "POST" /\ ConnectionPath(r.path, <<"schemas", "tables", "resync">>)
    /\ DOMAIN r.body = {"schema"}
    /\ r.body.schema.t = "list"
TestConnectionRow(r) ==
    r.method = "POST" /\ ConnectionPath(r.path, <<"test">>) /\ r.body = NoBody
GetSchemaRow(r) ==
    r.method = "GET" /\ ConnectionPath(r.path, <<"schemas">>) /\ r.body = NoBody

\* the request r is the one the table gives for the client operation the tool
\* calls (reload_schema calls an operation the table has no row for)
TableRequest(tool, r) ==
    CASE tool = "list_connections" -> ListConnectionsRow(r) \/ ListConnectionsInGroupRow(r)
      [] tool = "get_connection_status" -> GetConnectionRow(r)
      [] tool = "trigger_sync" -> TriggerSyncRow(r)
      [] tool = "trigger_resync" -> TriggerResyncRow(r)
      [] tool \in {"pause_connection", "resume_connection"} -> UpdateConnectionRow(r)
      [] tool = "list_groups" -> ListGroupsRow(r)
      [] tool = "resync_tables" -> ResyncTablesRow(r)
      [] tool = "test_connection" -> TestConnectionRow(r)
      [] tool \in {"get_schema", "list_tables"} -> GetSchemaRow(r)
      [] OTHER -> TRUE

\* C14: every request a client of either host issues has the method, the path
\* and the body that the REST table gives for the operation called.
C14_RequestsPerTable ==
    (pc \in {"await", "done"} /\ upstream # <<>>) =>
        \A i \in 1..Len(upstream) : TableRequest(CallTool, upstream[i])

----------------------------------------------------------------------------
(* C15 *)

\* the tool function of the server raised the error of _get_client
MissingCredentialsError == ServerRaise /\ resp.exc.exc = "ValueError"

\* C15: missing credentials stop the persistent host before it takes a tool
\* call, so no tool call of it ends in the missing-credentials error; and in
\* neither host does a call made without credentials issue an upstream request.
C15_MissingCredentialsAtStartup ==
    /\ ~MissingCredentialsError
    /\ (call.host = "worker" /\ ~ExecCredentials) => upstream = <<>>
    /\ (call.host = "server" /\ client = None) => upstream = <<>>

----------------------------------------------------------------------------
(* C16 *)

\* os.environ holds no key or no secret under either of their names
EnvironLacksCredentials ==
    ~Truthy(get_client_key(environ)) \/ ~Truthy(get_client_secret(environ))

\* a tool call of the server is being handled
ServerCalled == call.host = "server" /\ pc \in {"await", "done"}

\* C16: over the tool calls of the server, _get_client constructs at most one
\* FivetranClient; _client is set exactly when one has been constructed, and
\* then a call gets it whatever the environment holds; a call raises for
\* missing credentials only while _client is unset and the environment lacks
\* them, and it leaves _client unset; every other call leaves _client set.
C16_OneClient ==
    /\ constructed <= 1
    /\ (client = None) <=> (constructed = 0)
    /\ MissingCredentialsError => (client = None /\ EnvironLacksCredentials)
    /\ (ServerCalled /\ ~MissingCredentialsError) => client # None

\* after a call was refused for missing credentials, a later call created the
\* client, and a still later call gets it though the credentials are gone again
C16_Witness ==
    /\ refused
    /\ constructed = 1
    /\ ServerCalled
    /\ pc = "await"
    /\ EnvironLacksCredentials
    /\ client # None

====
